---- MODULE Spec2Model ----
(***************************************************************************)
(* Model of the spectrometer acquisition core: SerialHandler (the serial   *)
(* link, the scan flag and the 100 ms poll timer), the line decoding done  *)
(* in SerialHandler._read_serial_data, and DataProcessor (the data points  *)
(* and the metrics derived from them).                                     *)
(*                                                                         *)
(* A handler of the program is one action.  Every handler records, in      *)
(* `log`, the calls it made on the serial port and on the timer and the    *)
(* signals it emitted, in program order, and in `pre` the link state it    *)
(* was invoked from, so that orderings inside one handler can be stated.   *)
(***************************************************************************)
EXTENDS Integers, Sequences, FiniteSets, TLC

\* ------------------------------------------------------------------ bounds
MaxRxBytes == 12    \* bytes the open port's input buffer holds
MaxPoints == 2      \* data points kept before the model stops appending
MaxSpectrum == 3    \* data points a client of DataProcessor appends freely

\* ------------------------------------------------------------- text (str)
LF == "\n"
CR == "\r"
SP == " "
XFF == "0xFF"       \* a byte that is no valid character

Digits == <<"0", "1", "2", "3", "4", "5", "6", "7", "8", "9">>
Whitespace == {LF, CR, SP}
Undecodable == {XFF}

\* bytes.decode(errors='ignore'): undecodable bytes are dropped
RECURSIVE decode(_)
decode(b) ==
    IF b = <<>> THEN <<>>
    ELSE IF Head(b) \in Undecodable THEN decode(Tail(b))
         ELSE <<Head(b)>> \o decode(Tail(b))

RECURSIVE lstrip(_)
lstrip(s) ==
    IF s # <<>> /\ Head(s) \in Whitespace THEN lstrip(Tail(s)) ELSE s

RECURSIVE rstrip(_)
rstrip(s) ==
    IF s # <<>> /\ s[Len(s)] \in Whitespace
    THEN rstrip(SubSeq(s, 1, Len(s) - 1)) ELSE s

\* str.strip()
strip(s) == rstrip(lstrip(s))

\* str.startswith(p)
startswith(s, p) == Len(s) >= Len(p) /\ SubSeq(s, 1, Len(p)) = p

\* index of the first occurrence of c in s, 0 when there is none
RECURSIVE find(_, _, _)
find(s, c, i) ==
    IF i > Len(s) THEN 0
    ELSE IF s[i] = c THEN i ELSE find(s, c, i + 1)

\* str.split(sep) for a one-character separator
RECURSIVE split(_, _)
split(s, sep) ==
    LET i == find(s, sep, 1) IN
    IF i = 0 THEN <<s>>
    ELSE <<SubSeq(s, 1, i - 1)>> \o split(SubSeq(s, i + 1, Len(s)), sep)

IsDigit(c) == \E k \in 1..10 : Digits[k] = c
DigitVal(c) == (CHOOSE k \in 1..10 : Digits[k] = c) - 1

RECURSIVE digits_value(_, _)
digits_value(s, acc) ==
    IF s = <<>> THEN acc
    ELSE digits_value(Tail(s), 10 * acc + DigitVal(Head(s)))

\* the text int() parses: surrounding whitespace stripped, an optional sign,
\* then at least one digit; anything else raises ValueError
int_body(t) ==
    LET u == strip(t) IN
    IF u # <<>> /\ Head(u) \in {"-", "+"} THEN Tail(u) ELSE u

int_ok(t) ==
    LET d == int_body(t) IN
    d # <<>> /\ \A k \in 1..Len(d) : IsDigit(d[k])

int_value(t) ==
    LET u == strip(t)
        v == digits_value(int_body(t), 0) IN
    IF u # <<>> /\ Head(u) = "-" THEN 0 - v ELSE v

\* serial.Serial.readline() with timeout=1: the bytes up to and including the
\* first line feed, or, when none comes before the timeout, all that is there
readline(rx) ==
    LET i == find(rx, LF, 1) IN
    IF i = 0 THEN [line |-> rx, rest |-> <<>>]
    ELSE [line |-> SubSeq(rx, 1, i), rest |-> SubSeq(rx, i + 1, Len(rx))]

\* what _read_serial_data makes of one line read from the port
\* kind: "sample" (x, y), "ignored" (no branch taken), "raise" (ValueError)
parse_line(raw) ==
    LET line == strip(decode(raw))
        parts == split(line, "#") IN
    IF ~startswith(line, <<"d", "#">>) THEN [kind |-> "ignored", x |-> 0, y |-> 0]
    ELSE IF Len(parts) # 3 THEN [kind |-> "ignored", x |-> 0, y |-> 0]
    ELSE IF ~int_ok(parts[2]) \/ ~int_ok(parts[3])
         THEN [kind |-> "raise", x |-> 0, y |-> 0]
    ELSE [kind |-> "sample", x |-> int_value(parts[2]), y |-> int_value(parts[3])]

\* ------------------------------------------------ DataProcessor (metrics)
\* Real-valued metrics are kept exact: a real is a reduced fraction <<n, d>>
\* with d > 0, and snr, a quotient by a standard deviation, is kept as its
\* sign and its square.
Abs(n) == IF n < 0 THEN 0 - n ELSE n

RECURSIVE GCD(_, _)
GCD(a, b) == IF b = 0 THEN a ELSE GCD(b, a % b)

Frac(n, d) ==
    LET g == GCD(Abs(n), Abs(d))
        s == IF d < 0 THEN 0 - 1 ELSE 1 IN
    IF n = 0 THEN <<0, 1>> ELSE <<(s * n) \div g, (s * d) \div g>>

Zero == <<0, 1>>

RECURSIVE Sum(_, _)
Sum(f, n) == IF n = 0 THEN 0 ELSE f[n] + Sum(f, n - 1)

\* DataProcessor.reset_metrics
reset_metrics ==
    [peak_value |-> 0, centroid |-> Zero, max_intensity |-> 0, fwhm |-> 0,
     snr |-> [sgn |-> 0, sq |-> Zero], auc |-> Zero]

\* np.max(intensities) and np.argmax(intensities): the first index of the max
np_max(I) == CHOOSE m \in {I[k] : k \in 1..Len(I)} : \A k \in 1..Len(I) : I[k] <= m
\* argmax that keeps the last index of the maximum
np_argmax_last(I) == CHOOSE i \in 1..Len(I) :
    /\ I[i] = np_max(I)
    /\ \A k \in (i + 1)..Len(I) : I[k] # np_max(I)

np_argmax(I) == CHOOSE i \in 1..Len(I) :
    /\ I[i] = np_max(I)
    /\ \A k \in 1..(i - 1) : I[k] # np_max(I)

calc_centroid(W, I) ==
    LET n == Len(I)
        si == Sum(I, n)
        swi == Sum([k \in 1..n |-> W[k] * I[k]], n) IN
    IF si > 0 THEN Frac(swi, si) ELSE Zero

\* FWHM with intensities >= max_intensity / 2
calc_fwhm_inclusive(W, I) ==
    LET n == Len(I)
        above == {k \in 1..n : 2 * I[k] >= np_max(I)} IN
    IF above # {} THEN
        LET left_idx == CHOOSE k \in above : \A j \in above : k <= j
            right_idx == CHOOSE k \in above : \A j \in above : j <= k IN
        IF right_idx > left_idx THEN W[right_idx] - W[left_idx] ELSE 0
    ELSE 0

\* intensities > max_intensity / 2, then the first and the last such index
calc_fwhm(W, I) ==
    LET n == Len(I)
        above == {k \in 1..n : 2 * I[k] > np_max(I)} IN
    IF above # {} THEN
        LET left_idx == CHOOSE k \in above : \A j \in above : k <= j
            right_idx == CHOOSE k \in above : \A j \in above : j <= k IN
        IF right_idx > left_idx THEN W[right_idx] - W[left_idx] ELSE 0
    ELSE 0

\* AUC over the absolute wavelength steps
calc_auc_abs(W, I) ==
    LET n == Len(I) IN
    IF n > 1
    THEN Frac(Sum([k \in 1..(n - 1) |->
                     Abs(W[k + 1] - W[k]) * (I[k] + I[k + 1])], n - 1), 2)
    ELSE Zero

\* np.trapezoid(intensities, wavelengths), in the order of the data points
calc_auc(W, I) ==
    LET n == Len(I) IN
    IF n > 1
    THEN Frac(Sum([k \in 1..(n - 1) |->
                     (W[k + 1] - W[k]) * (I[k] + I[k + 1])], n - 1), 2)
    ELSE Zero

\* noise region: intensities < max_intensity * 0.1; np.std is the population
\* standard deviation, so std^2 = (m * sum(x^2) - sum(x)^2) / m^2
calc_snr(I) ==
    LET n == Len(I)
        mx == np_max(I)
        noise == {k \in 1..n : 10 * I[k] < mx}
        m == Cardinality(noise)
        s1 == Sum([k \in 1..n |-> IF k \in noise THEN I[k] ELSE 0], n)
        s2 == Sum([k \in 1..n |-> IF k \in noise THEN I[k] * I[k] ELSE 0], n)
        v == m * s2 - s1 * s1 IN
    IF m > 1 /\ v > 0
    THEN [sgn |-> IF mx > 0 THEN 1 ELSE IF mx < 0 THEN 0 - 1 ELSE 0,
          sq |-> Frac(mx * mx * m * m, v)]
    ELSE [sgn |-> 0, sq |-> Zero]

\* calculate_metrics with peak_value and max_intensity exchanged
calculate_metrics_swapped(data_points) ==
    IF data_points = <<>> THEN reset_metrics
    ELSE
        LET n == Len(data_points)
            W == [k \in 1..n |-> data_points[k][1]]
            I == [k \in 1..n |-> data_points[k][2]] IN
        [peak_value |-> np_max(I),
         centroid |-> calc_centroid(W, I),
         max_intensity |-> W[np_argmax(I)],
         fwhm |-> calc_fwhm(W, I),
         snr |-> calc_snr(I),
         auc |-> calc_auc(W, I)]

\* DataProcessor.calculate_metrics
calculate_metrics(data_points) ==
    IF data_points = <<>> THEN reset_metrics
    ELSE
        LET n == Len(data_points)
            W == [k \in 1..n |-> data_points[k][1]]
            I == [k \in 1..n |-> data_points[k][2]] IN
        [peak_value |-> W[np_argmax(I)],
         centroid |-> calc_centroid(W, I),
         max_intensity |-> np_max(I),
         fwhm |-> calc_fwhm(W, I),
         snr |-> calc_snr(I),
         auc |-> calc_auc(W, I)]

\* ---------------------------------------------------------------- state
VARIABLES
    serial_port,    \* SerialHandler.serial_port: None, or the port object
    timer,          \* SerialHandler.timer is active
    scan_active,    \* SerialHandler.scan_active
    rx,             \* bytes waiting in the open port's input buffer
    start_written,  \* the start frame reached the instrument on this port
    data_points,    \* DataProcessor.data_points
    metrics,        \* DataProcessor.metrics
    op,             \* the handler that ran last
    pre,            \* the link state that handler was invoked from
    log,            \* that handler's port and timer calls and signals, in order
    ret,            \* that handler's return value
    started         \* start_scan returned True since the scan flag was last
                    \* cleared and the port last closed

vars == <<serial_port, timer, scan_active, rx, start_written, data_points,
          metrics, op, pre, log, ret, started>>

\* the (port, baud) selections a client connects with
Selections == {<<"COM3", "9600">>, <<"COM4", "115200">>}

None == [obj |-> FALSE, is_open |-> FALSE, port |-> "", baud |-> ""]
Serial(port, baud) == [obj |-> TRUE, is_open |-> TRUE, port |-> port, baud |-> baud]

\* what the instrument may put on the wire in one piece
Chunks == {
    <<"d", "#", "1", "#", "2", LF>>,
    <<"d", "#", "2", "#", "5", LF>>,
    <<"d", "#", "-", "3", "#", XFF, "4", CR, LF>>,
    <<"f", "o", "o", "#", "1", "#", "2", LF>>,
    <<"d", "#", "1", LF>>,
    <<"d", "#", "1", "#", "2", "#", "3", LF>>,
    <<"d", "#", "x", "#", "2", LF>>,
    <<"d", "#", "1", "#">>,
    <<"2", LF>> }

\* one entry of a handler's log
\* k: the call or the signal; ok: the call returned (it raised otherwise), or
\* the signal's flag; port, baud, x, y: the arguments; line: the bytes read;
\* metrics: the record metrics_updated carries
Entry(k, ok, port, baud, x, y) ==
    [k |-> k, ok |-> ok, port |-> port, baud |-> baud, x |-> x, y |-> y,
     line |-> <<>>, metrics |-> reset_metrics]
Call(k, ok) == Entry(k, ok, "", "", 0, 0)
Read(line) == [Call("readline", TRUE) EXCEPT !.line = line]
Published(m) == [Call("metrics_updated", TRUE) EXCEPT !.metrics = m]

\* the handler's working state: the fields a handler reads and writes
Now ==
    [serial_port |-> serial_port, timer |-> timer, scan_active |-> scan_active,
     rx |-> rx, start_written |-> start_written, data_points |-> data_points,
     metrics |-> metrics, log |-> <<>>, ret |-> "None"]

Log(h, e) == [h EXCEPT !.log = Append(@, e)]
Return(h, v) == [h EXCEPT !.ret = v]

\* SerialHandler.is_connected
is_connected(h) == h.serial_port.obj /\ h.serial_port.is_open

error_occurred(h) == Log(h, Call("error_occurred", TRUE))
\* metrics_updated.emit(self.metrics.copy())
metrics_updated(h) == Log(h, Published(h.metrics))
connection_status_changed(h, connected, port, baud) ==
    Log(h, Entry("connection_status_changed", connected, port, baud, 0, 0))

\* add_data_point that leaves the metrics of the previous data points
add_data_point_no_recalc(h, x, y) ==
    LET d == Append(h.data_points, <<x, y>>) IN
    metrics_updated([h EXCEPT !.data_points = d])

\* add_data_point that skips a sample equal to the last one
add_data_point_dedup(h, x, y) ==
    LET d == IF h.data_points # <<>> /\ h.data_points[Len(h.data_points)] = <<x, y>>
             THEN h.data_points ELSE Append(h.data_points, <<x, y>>) IN
    metrics_updated([h EXCEPT !.data_points = d, !.metrics = calculate_metrics(d)])

\* add_data_point that emits metrics_updated before it recomputes
add_data_point_emit_first(h, x, y) ==
    LET d == Append(h.data_points, <<x, y>>)
        h1 == metrics_updated([h EXCEPT !.data_points = d]) IN
    [h1 EXCEPT !.metrics = calculate_metrics(d)]

\* DataProcessor.add_data_point, reached through MainApp.on_data_received
add_data_point(h, x, y) ==
    LET d == Append(h.data_points, <<x, y>>) IN
    metrics_updated([h EXCEPT !.data_points = d, !.metrics = calculate_metrics(d)])

\* DataProcessor.clear_data
clear_data(h) ==
    metrics_updated([h EXCEPT !.data_points = <<>>, !.metrics = reset_metrics])

data_received(h, x, y) ==
    add_data_point(Log(h, Entry("data_received", TRUE, "", "", x, y)), x, y)

\* SerialHandler.stop_scan; wok: the write of the stop frame succeeds
stop_scan(h, wok) ==
    IF ~h.scan_active THEN h
    ELSE IF is_connected(h) /\ ~wok
         THEN error_occurred(Log(h, Call("write_stop", FALSE)))
    ELSE LET h1 == IF is_connected(h) THEN Log(h, Call("write_stop", TRUE)) ELSE h IN
         [Log(h1, Call("timer_stop", TRUE))
            EXCEPT !.timer = FALSE, !.scan_active = FALSE]

\* disconnect with the port closed before the scan is stopped
disconnect_close_first(h, wok) ==
    IF is_connected(h) THEN
        LET h1 == [Log(h, Call("close", TRUE))
                     EXCEPT !.serial_port.is_open = FALSE, !.rx = <<>>,
                            !.start_written = FALSE]
            h2 == stop_scan(h1, wok) IN
        connection_status_changed(h2, FALSE, "", "")
    ELSE h

\* SerialHandler.disconnect
disconnect(h, wok) ==
    IF is_connected(h) THEN
        LET h1 == stop_scan(h, wok)
            h2 == [Log(h1, Call("close", TRUE))
                     EXCEPT !.serial_port.is_open = FALSE, !.rx = <<>>,
                            !.start_written = FALSE] IN
        connection_status_changed(h2, FALSE, "", "")
    ELSE h

\* connect_to_port whose except branch emits no error_occurred
connect_to_port_silent(h, port, baud, ook, wok) ==
    LET h1 == IF is_connected(h) THEN disconnect(h, wok) ELSE h IN
    IF ook THEN
        LET h2 == [Log(h1, Entry("open", TRUE, port, baud, 0, 0))
                     EXCEPT !.serial_port = Serial(port, baud), !.rx = <<>>,
                            !.start_written = FALSE] IN
        Return(connection_status_changed(h2, TRUE, port, baud), "True")
    ELSE
        LET h2 == [Log(h1, Entry("open", FALSE, port, baud, 0, 0))
                     EXCEPT !.serial_port = None] IN
        Return(connection_status_changed(h2, FALSE, "", ""), "False")

\* SerialHandler.connect_to_port; ook: serial.Serial(...) succeeds
connect_to_port(h, port, baud, ook, wok) ==
    LET h1 == IF is_connected(h) THEN disconnect(h, wok) ELSE h IN
    IF ook THEN
        LET h2 == [Log(h1, Entry("open", TRUE, port, baud, 0, 0))
                     EXCEPT !.serial_port = Serial(port, baud), !.rx = <<>>,
                            !.start_written = FALSE] IN
        Return(connection_status_changed(h2, TRUE, port, baud), "True")
    ELSE
        LET h2 == [Log(h1, Entry("open", FALSE, port, baud, 0, 0))
                     EXCEPT !.serial_port = None] IN
        Return(connection_status_changed(error_occurred(h2), FALSE, "", ""), "False")

\* start_scan that tests the port object but not is_open
start_scan_object_only(h, wok) ==
    IF ~h.serial_port.obj THEN Return(error_occurred(h), "False")
    ELSE IF h.scan_active THEN Return(h, "True")
    ELSE IF wok /\ h.serial_port.is_open THEN
        LET h1 == [Log(h, Call("write_start", TRUE))
                     EXCEPT !.start_written = TRUE, !.scan_active = TRUE] IN
        Return([Log(h1, Call("timer_start", TRUE)) EXCEPT !.timer = TRUE], "True")
    ELSE Return(error_occurred(Log(h, Call("write_start", FALSE))), "False")

\* start_scan that sets the scan flag before it writes the start frame
start_scan_flag_first(h, wok) ==
    IF ~is_connected(h) THEN Return(error_occurred(h), "False")
    ELSE IF h.scan_active THEN Return(h, "True")
    ELSE IF wok THEN
        LET h1 == [Log(h, Call("write_start", TRUE))
                     EXCEPT !.start_written = TRUE, !.scan_active = TRUE] IN
        Return([Log(h1, Call("timer_start", TRUE)) EXCEPT !.timer = TRUE], "True")
    ELSE Return(error_occurred(Log([h EXCEPT !.scan_active = TRUE],
                                   Call("write_start", FALSE))), "False")

\* SerialHandler.start_scan; wok: the write of the start frame succeeds
start_scan(h, wok) ==
    IF ~is_connected(h) THEN Return(error_occurred(h), "False")
    ELSE IF h.scan_active THEN Return(h, "True")
    ELSE IF wok THEN
        LET h1 == [Log(h, Call("write_start", TRUE))
                     EXCEPT !.start_written = TRUE, !.scan_active = TRUE] IN
        Return([Log(h1, Call("timer_start", TRUE)) EXCEPT !.timer = TRUE], "True")
    ELSE Return(error_occurred(Log(h, Call("write_start", FALSE))), "False")

\* the except branch of _read_serial_data
read_failed(h, wok) == stop_scan(error_occurred(h), wok)

\* _read_serial_data whose guard returns without stopping the timer
read_serial_data_keeps_timer(h, fail, wok) ==
    IF ~is_connected(h) \/ ~h.scan_active
    THEN h
    ELSE IF fail = "in_waiting" THEN read_failed(Log(h, Call("in_waiting", FALSE)), wok)
    ELSE LET h1 == Log(h, Call("in_waiting", TRUE)) IN
         IF h1.rx = <<>> THEN h1
         ELSE IF fail = "readline" THEN read_failed(Log(h1, Call("readline", FALSE)), wok)
         ELSE LET r == readline(h1.rx)
                  h2 == [Log(h1, Read(r.line)) EXCEPT !.rx = r.rest]
                  p == parse_line(r.line) IN
              IF p.kind = "sample" THEN data_received(h2, p.x, p.y)
              ELSE IF p.kind = "raise" THEN read_failed(h2, wok)
              ELSE h2

\* _read_serial_data that goes on reading while lines are waiting
RECURSIVE read_serial_data_drain(_, _, _)
read_serial_data_drain(h, fail, wok) ==
    IF ~is_connected(h) \/ ~h.scan_active
    THEN [Log(h, Call("timer_stop", TRUE)) EXCEPT !.timer = FALSE]
    ELSE IF fail = "in_waiting" THEN read_failed(Log(h, Call("in_waiting", FALSE)), wok)
    ELSE LET h1 == Log(h, Call("in_waiting", TRUE)) IN
         IF h1.rx = <<>> THEN h1
         ELSE IF fail = "readline" THEN read_failed(Log(h1, Call("readline", FALSE)), wok)
         ELSE LET r == readline(h1.rx)
                  h2 == [Log(h1, Read(r.line)) EXCEPT !.rx = r.rest]
                  p == parse_line(r.line) IN
              IF p.kind = "sample"
              THEN read_serial_data_drain(data_received(h2, p.x, p.y), fail, wok)
              ELSE IF p.kind = "raise" THEN read_failed(h2, wok)
              ELSE read_serial_data_drain(h2, fail, wok)

\* SerialHandler._read_serial_data, the timer's callback
\* fail: the port call that raises ("none", "in_waiting" or "readline")
read_serial_data(h, fail, wok) ==
    IF ~is_connected(h) \/ ~h.scan_active
    THEN [Log(h, Call("timer_stop", TRUE)) EXCEPT !.timer = FALSE]
    ELSE IF fail = "in_waiting" THEN read_failed(Log(h, Call("in_waiting", FALSE)), wok)
    ELSE LET h1 == Log(h, Call("in_waiting", TRUE)) IN
         IF h1.rx = <<>> THEN h1
         ELSE IF fail = "readline" THEN read_failed(Log(h1, Call("readline", FALSE)), wok)
         ELSE LET r == readline(h1.rx)
                  h2 == [Log(h1, Read(r.line)) EXCEPT !.rx = r.rest]
                  p == parse_line(r.line) IN
              IF p.kind = "sample" THEN data_received(h2, p.x, p.y)
              ELSE IF p.kind = "raise" THEN read_failed(h2, wok)
              ELSE h2

\* ------------------------------------------------------------- actions
LinkOf(h) == [open |-> is_connected(h), scan |-> h.scan_active, timer |-> h.timer]

\* a handler ran from the current state and left the working state h
Ran(name, h) ==
    /\ serial_port' = h.serial_port
    /\ timer' = h.timer
    /\ scan_active' = h.scan_active
    /\ rx' = h.rx
    /\ start_written' = h.start_written
    /\ data_points' = h.data_points
    /\ metrics' = h.metrics
    /\ log' = h.log
    /\ ret' = h.ret
    /\ op' = name
    /\ pre' = LinkOf(Now)
    /\ started' =
         IF name = "start_scan" /\ h.ret = "True" THEN TRUE
         ELSE IF (scan_active /\ ~h.scan_active)
                  \/ \E i \in 1..Len(h.log) : h.log[i].k = "close"
              THEN FALSE
         ELSE started

Init ==
    /\ serial_port = None
    /\ timer = FALSE
    /\ scan_active = FALSE
    /\ rx = <<>>
    /\ start_written = FALSE
    /\ data_points = <<>>
    /\ metrics = reset_metrics
    /\ op = "__init__"
    /\ pre = [open |-> FALSE, scan |-> FALSE, timer |-> FALSE]
    /\ log = <<>>
    /\ ret = "None"
    /\ started = FALSE

ConnectToPort ==
    \E sel \in Selections, ook \in BOOLEAN, wok \in BOOLEAN :
        Ran("connect_to_port", connect_to_port(Now, sel[1], sel[2], ook, wok))

Disconnect ==
    \E wok \in BOOLEAN : Ran("disconnect", disconnect(Now, wok))

StartScan ==
    \E wok \in BOOLEAN : Ran("start_scan", start_scan(Now, wok))

StopScan ==
    \E wok \in BOOLEAN : Ran("stop_scan", stop_scan(Now, wok))

\* the QTimer fires
ReadSerialData ==
    /\ timer
    /\ \E fail \in {"none", "in_waiting", "readline"}, wok \in BOOLEAN :
        LET h == read_serial_data(Now, fail, wok) IN
        /\ Len(h.data_points) <= MaxPoints
        /\ Ran("_read_serial_data", h)

\* MainApp.clear_graph
ClearGraph == Ran("clear_data", clear_data(Now))

\* the instrument sends bytes, which the open port buffers
Arrive ==
    /\ is_connected(Now)
    /\ \E c \in Chunks :
        /\ Len(rx) + Len(c) <= MaxRxBytes
        /\ Ran("arrive", [Now EXCEPT !.rx = rx \o c])

Next ==
    \/ ConnectToPort
    \/ Disconnect
    \/ StartScan
    \/ StopScan
    \/ ReadSerialData
    \/ ClearGraph
    \/ Arrive

Spec == Init /\ [][Next]_vars

\* ------------------------------------------- DataProcessor driven alone
\* The samples a client hands to add_data_point, and two reference spectra
\* replayed point by point: the triangular peak of 100 at 500 over 400..600
\* in steps of 10, and the single sample (500, 800).
Wavelengths == {0, 1, 2}
Intensities == {0 - 1, 0, 6, 10}

Triangle ==
    [k \in 1..21 |-> <<400 + 10 * (k - 1), 100 - 10 * Abs(k - 11)>>]
References == {Triangle, <<<<500, 800>>>>}

IsPrefix(a, b) == Len(a) <= Len(b) /\ SubSeq(b, 1, Len(a)) = a

AddDataPoint ==
    /\ Len(data_points) < MaxSpectrum
    /\ \E x \in Wavelengths, y \in Intensities :
        Ran("add_data_point", add_data_point(Now, x, y))

ReplayReference ==
    \E r \in References :
        /\ IsPrefix(data_points, r)
        /\ Len(data_points) < Len(r)
        /\ LET pt == r[Len(data_points) + 1] IN
           Ran("add_data_point", add_data_point(Now, pt[1], pt[2]))

NextMetrics ==
    \/ AddDataPoint
    \/ ReplayReference
    \/ ClearGraph

SpecMetrics == Init /\ [][NextMetrics]_vars

\* ------------------------------------------------- link states and logs
\* The three states of the scan controller, over (port open, flag, timer)
Disconnected(l) == ~l.open /\ ~l.scan /\ ~l.timer
Connected(l) == l.open /\ ~l.scan /\ ~l.timer
Scanning(l) == l.open /\ l.scan /\ l.timer
Current == LinkOf(Now)

Has(k, ok) == \E i \in 1..Len(log) : log[i].k = k /\ log[i].ok = ok
Called(k) == \E i \in 1..Len(log) : log[i].k = k
Count(k) == Cardinality({i \in 1..Len(log) : log[i].k = k})
FirstIdx(k) ==
    IF Called(k) THEN CHOOSE i \in 1..Len(log) :
                        log[i].k = k /\ \A j \in 1..(i - 1) : log[j].k # k
    ELSE 0
Before(k1, k2) == Called(k1) /\ Called(k2) /\ FirstIdx(k1) < FirstIdx(k2)

PortIO == {"write_start", "write_stop", "in_waiting", "readline"}

\* the port was open when the handler made the i-th entry of its log
OpenAt(i) ==
    LET marks == {j \in 1..(i - 1) : log[j].k \in {"open", "close"}} IN
    IF marks = {} THEN pre.open
    ELSE LET j == CHOOSE m \in marks : \A n \in marks : n <= m IN
         log[j].k = "open" /\ log[j].ok

ReadFailed == Has("in_waiting", FALSE) \/ Has("readline", FALSE)
LineRead == log[FirstIdx("readline")].line

\* the decoding rule of the wire protocol, on a line without its terminator
Complete(raw) == raw # <<>> /\ raw[Len(raw)] = LF
RuleHolds(raw) ==
    LET line == strip(decode(raw))
        parts == split(line, "#") IN
    /\ startswith(line, <<"d", "#">>)
    /\ Len(parts) = 3
    /\ int_ok(parts[2])
    /\ int_ok(parts[3])

\* ---------------------------------------------------------------- claims

\* C1 (as stated): a poll tick while Scanning that reads a complete line
\* violating the decoding rule emits no sample and no error and leaves the
\* scan active with the timer running; one that reads a complete valid line
\* emits its sample.
C1_MalformedLineDiscarded ==
    (op = "_read_serial_data" /\ Scanning(pre) /\ Has("readline", TRUE)
        /\ Complete(LineRead)) =>
        IF RuleHolds(LineRead)
        THEN Count("data_received") = 1
        ELSE /\ ~Called("data_received")
             /\ ~Called("error_occurred")
             /\ Scanning(Current)

\* C2 (as stated): stop_scan() invoked while Scanning leaves the controller
\* Connected (flag false, timer stopped) whatever the outcome of the write of
\* the stop frame, and a failed write is reported as an error event.
C2_StopScanAlwaysStops ==
    (op = "stop_scan" /\ Scanning(pre)) =>
        /\ Connected(Current)
        /\ Has("write_stop", FALSE) => Called("error_occurred")

\* C3 (as stated): when a port read fails in a poll tick while Scanning, the
\* scan is stopped before the error is reported, and polling is off after the
\* tick, also when the write of the stop frame fails.
C3_ReadFailureStopsBeforeReport ==
    (op = "_read_serial_data" /\ Scanning(pre) /\ ReadFailed) =>
        /\ Before("timer_stop", "error_occurred")
        /\ ~timer
        /\ ~scan_active

\* C4: disconnect() invoked while the port is open and the scan flag is set
\* (directly, or by connect_to_port) calls the write of the stop frame before
\* it closes the port, and no handler ever reads from or writes to a port that
\* is not open.
C4_StopBeforeCloseNoIoAfterClose ==
    /\ (op \in {"disconnect", "connect_to_port"} /\ pre.open /\ pre.scan) =>
            Before("write_stop", "close")
    /\ \A i \in 1..Len(log) : log[i].k \in PortIO => OpenAt(i)

C4_Witness ==
    /\ op = "disconnect"
    /\ Scanning(pre)
    /\ Has("write_stop", FALSE)
    /\ Called("close")
    /\ ~is_connected(Now)

\* C5 (as stated): after disconnect() from Connected or Scanning the
\* controller is Disconnected (port closed, flag false, timer stopped) and a
\* connection-changed(false) event was emitted, whatever the outcome of the
\* write of the stop frame.
C5_DisconnectReachesDisconnected ==
    (op = "disconnect" /\ (Connected(pre) \/ Scanning(pre))) =>
        /\ Disconnected(Current)
        /\ Has("connection_status_changed", FALSE)

\* C6: start_scan() invoked while the link is not connected returns False,
\* emits one error event and nothing else (no write, no timer start), and
\* leaves the link state, the data points and the metrics unchanged.
C6_StartScanNotConnected ==
    [][(op' = "start_scan" /\ ~is_connected(Now)) =>
          /\ ret' = "False"
          /\ log' = <<Call("error_occurred", TRUE)>>
          /\ UNCHANGED <<serial_port, timer, scan_active, rx, start_written,
                         data_points, metrics>>]_vars

C6_Witness ==
    /\ op = "start_scan"
    /\ ~pre.open
    /\ ret = "False"
    /\ serial_port # None
    /\ data_points # <<>>

\* C7 (as stated): whenever start_scan() returns True the controller is
\* Scanning (port open, flag set, timer running) and the start frame has been
\* written to the port that is open now; from Scanning it writes no start frame.
C7_StartScanSuccessMeansScanning ==
    (op = "start_scan" /\ ret = "True") =>
        /\ Scanning(Current)
        /\ start_written
        /\ Scanning(pre) => ~Called("write_start")

\* C8: connect_to_port invoked from Disconnected or from Connected: when the
\* open fails the controller is Disconnected with no port object and an error
\* event was emitted; when it succeeds the controller is Connected on the
\* requested port and the last event is connection-changed(true, port, baud).
C8_ConnectOutcome ==
    (op = "connect_to_port" /\ (Disconnected(pre) \/ Connected(pre))) =>
        LET o == log[FirstIdx("open")] IN
        IF o.ok
        THEN /\ Connected(Current)
             /\ ret = "True"
             /\ serial_port = Serial(o.port, o.baud)
             /\ log[Len(log)] =
                  Entry("connection_status_changed", TRUE, o.port, o.baud, 0, 0)
        ELSE /\ Disconnected(Current)
             /\ ret = "False"
             /\ serial_port = None
             /\ Before("open", "error_occurred")

C8_Witness ==
    /\ op = "connect_to_port"
    /\ Connected(pre)
    /\ Has("open", FALSE)
    /\ Called("close")

\* C9 (as stated): connect_to_port invoked while a port is open writes the
\* stop frame and halts polling if Scanning, closes the old port and only then
\* opens the new one; after a successful reconnect the controller is Connected
\* and not Scanning.
C9_ReconnectStopsAndCloses ==
    (op = "connect_to_port" /\ (Connected(pre) \/ Scanning(pre))) =>
        /\ Before("close", "open")
        /\ Scanning(pre) => Before("write_stop", "close")
                            /\ Before("timer_stop", "close")
        /\ Has("open", TRUE) => Connected(Current)

RECURSIVE ValidLines(_)
ValidLines(b) ==
    LET i == find(b, LF, 1) IN
    IF i = 0 THEN 0
    ELSE (IF RuleHolds(SubSeq(b, 1, i)) THEN 1 ELSE 0)
         + ValidLines(SubSeq(b, i + 1, Len(b)))

\* the bytes one readline call takes from a buffer
FirstLine(b) ==
    LET i == find(b, LF, 1) IN
    IF i = 0 THEN b ELSE SubSeq(b, 1, i)

C12_PartialLineKeptBuffered ==
    (op = "_read_serial_data" /\ Scanning(pre) /\ Has("readline", TRUE)
        /\ ~Complete(LineRead)) =>
        /\ ~Called("data_received")
        /\ ~Called("error_occurred")
        /\ Scanning(Current)
        /\ IsPrefix(LineRead, rx)

\* C13: after any sequence of add_data_point and clear_data the metrics are
\* the metrics computed from the data points as they are now, every
\* metrics_updated event carries exactly them, and with no data point all
\* six fields are zero.
C13_MetricsMatchSpectrum ==
    /\ metrics = calculate_metrics(data_points)
    /\ \A i \in 1..Len(log) :
          log[i].k = "metrics_updated" => log[i].metrics = calculate_metrics(data_points)
    /\ data_points = <<>> =>
          /\ metrics.peak_value = 0 /\ metrics.centroid = Zero
          /\ metrics.max_intensity = 0 /\ metrics.fwhm = 0
          /\ metrics.snr.sgn = 0 /\ metrics.auc = Zero

C13_Witness ==
    /\ op = "add_data_point"
    /\ Len(data_points) = 3
    /\ metrics.snr.sgn = 1
    /\ metrics.auc # Zero
    /\ Called("metrics_updated")

\* C14: the data points change only by one sample appended at the end, in a
\* poll tick that emitted data_received for it, or by clear_data; connect,
\* disconnect, start_scan, stop_scan, arriving bytes and ticks that decode no
\* sample leave the data points and the metrics as they are.
C14_SpectrumAppendOnly ==
    [][/\ op' \in {"connect_to_port", "disconnect", "start_scan", "stop_scan",
                   "arrive"} => UNCHANGED <<data_points, metrics>>
       /\ op' = "clear_data" => data_points' = <<>>
       /\ op' = "_read_serial_data" =>
            LET got == {i \in 1..Len(log') : log'[i].k = "data_received"} IN
            IF got = {} THEN UNCHANGED <<data_points, metrics>>
            ELSE \E i \in got :
                    data_points' = data_points \o <<<<log'[i].x, log'[i].y>>>>]_vars

C14_Witness ==
    /\ op = "_read_serial_data"
    /\ Called("data_received")
    /\ Len(data_points) = 2
    /\ data_points[1] = data_points[2]

\* C15: a handler emits data_received at most once, only in a poll tick and
\* once for a valid complete line it read; metrics_updated follows it
\* directly, and carries the metrics of the data points that end with that
\* sample.
C15_MetricsFollowSample ==
    /\ op \notin {"_read_serial_data"} => ~Called("data_received")
    /\ op = "_read_serial_data" =>
        /\ Count("data_received") <= 1
        /\ Count("metrics_updated") = Count("data_received")
        /\ (Has("readline", TRUE) /\ Complete(LineRead) /\ RuleHolds(LineRead)
              /\ Scanning(pre)) => Count("data_received") = 1
        /\ \A i \in 1..Len(log) : log[i].k = "data_received" =>
              /\ i < Len(log)
              /\ log[i + 1].k = "metrics_updated"
              /\ data_points # <<>>
              /\ data_points[Len(data_points)] = <<log[i].x, log[i].y>>
              /\ log[i + 1].metrics = calculate_metrics(data_points)

C15_Witness ==
    /\ op = "_read_serial_data"
    /\ Called("data_received")
    /\ Len(data_points) = 2
    /\ log[Len(log)].metrics.auc # Zero

\* ------------------------------------------------ claims on the metrics
\* the wavelengths and the intensities of the data points, in their order
WOf(d) == [k \in 1..Len(d) |-> d[k][1]]
IOf(d) == [k \in 1..Len(d) |-> d[k][2]]
MaxOf(S) == CHOOSE m \in S : \A v \in S : v <= m
MinOf(S) == CHOOSE m \in S : \A v \in S : m <= v

\* C16: for data points that are not empty, max_intensity is the greatest
\* intensity and peak_value is the wavelength at the lowest index that has it.
C16_PeakIsFirstMaximum ==
    data_points # <<>> =>
        LET W == WOf(data_points)
            I == IOf(data_points) IN
        /\ \A k \in 1..Len(I) : I[k] <= metrics.max_intensity
        /\ \E i \in 1..Len(I) :
              /\ I[i] = metrics.max_intensity
              /\ \A j \in 1..(i - 1) : I[j] < metrics.max_intensity
              /\ metrics.peak_value = W[i]

C16_Witness ==
    /\ op = "add_data_point"
    /\ Len(data_points) = 3
    /\ data_points[1][2] = metrics.max_intensity
    /\ data_points[3][2] = metrics.max_intensity
    /\ data_points[1][1] # data_points[3][1]

\* C17: fwhm is W[right] - W[left] for the first and the last index whose
\* intensity is strictly above half the maximum when right > left, and 0 when
\* there is no such index or only one; for the triangular reference spectrum
\* peak_value is 500 and fwhm is the span of the wavelengths whose intensity
\* exceeds 50.
C17_FwhmIsThresholdSpan ==
    LET W == WOf(data_points)
        I == IOf(data_points)
        A == {k \in 1..Len(I) : 2 * I[k] > MaxOf({I[j] : j \in 1..Len(I)})} IN
    /\ (data_points = <<>> \/ A = {}) => metrics.fwhm = 0
    /\ (data_points # <<>> /\ A # {}) =>
          metrics.fwhm = IF MaxOf(A) > MinOf(A)
                         THEN W[MaxOf(A)] - W[MinOf(A)] ELSE 0
    /\ data_points = Triangle =>
          LET over == {W[k] : k \in {j \in 1..Len(I) : I[j] > 50}} IN
          /\ metrics.peak_value = 500
          /\ metrics.fwhm = MaxOf(over) - MinOf(over)
          /\ metrics.fwhm = 80

C17_Witness ==
    /\ data_points = Triangle
    /\ op = "add_data_point"

\* the trapezoid sum, doubled, over consecutive points of d from index k on
RECURSIVE Trapezoids2(_, _)
Trapezoids2(d, k) ==
    IF k >= Len(d) THEN 0
    ELSE (d[k + 1][1] - d[k][1]) * (d[k][2] + d[k + 1][2]) + Trapezoids2(d, k + 1)

\* C18: for more than one data point twice the auc is the sum over
\* consecutive points, in their order, of (W[i+1] - W[i]) * (I[i] + I[i+1]);
\* the auc is 0 for at most one point and 10 for (0,0), (1,10), (2,0).
C18_AucIsTrapezoidInOrder ==
    /\ 2 * metrics.auc[1] = metrics.auc[2] * Trapezoids2(data_points, 1)
    /\ metrics.auc[2] > 0
    /\ Len(data_points) <= 1 => metrics.auc = Zero
    /\ data_points = <<<<0, 0>>, <<1, 10>>, <<2, 0>>>> => metrics.auc = <<10, 1>>

C18_Witness ==
    /\ op = "add_data_point"
    /\ Len(data_points) = 3
    /\ data_points[2][1] < data_points[1][1]
    /\ metrics.auc[1] < 0

\* C19: for exactly one data point (w, i) with i > 0 the metrics are
\* peak_value = w, centroid = w, max_intensity = i, fwhm = 0, auc = 0, snr = 0.
C19_SingleSampleMetrics ==
    (Len(data_points) = 1 /\ data_points[1][2] > 0) =>
        LET w == data_points[1][1]
            i == data_points[1][2] IN
        /\ metrics.peak_value = w
        /\ metrics.centroid[1] = w * metrics.centroid[2]
        /\ metrics.max_intensity = i
        /\ metrics.fwhm = 0
        /\ metrics.auc = Zero
        /\ metrics.snr = [sgn |-> 0, sq |-> Zero]

C19_Witness ==
    /\ op = "add_data_point"
    /\ data_points = <<<<500, 800>>>>
    /\ metrics.centroid = <<500, 1>>

\* C20 (as stated): in every reachable state the timer runs exactly when the
\* scan flag is set and the flag is set only while the port is open, so the
\* controller is Disconnected, Connected or Scanning.
C20_ExactlyOneLinkState ==
    /\ timer <=> scan_active
    /\ scan_active => is_connected(Now)
    /\ Disconnected(Current) \/ Connected(Current) \/ Scanning(Current)

\* a handler's log holds a data_received event
Emits(l) == \E i \in 1..Len(l) : l[i].k = "data_received"

\* C21 (as stated): data_received is emitted only by a poll tick that runs
\* while the port is open and the scan flag is set; from a state where the
\* flag is clear, the port is closed, or no start_scan has returned True since
\* the flag was last cleared and the port last closed, no handler emits
\* data_received and the data points do not grow.
C21_NoSampleUntilStartScan ==
    [][/\ Emits(log') =>
            op' = "_read_serial_data" /\ is_connected(Now) /\ scan_active
       /\ (~scan_active \/ ~is_connected(Now) \/ ~started) =>
            /\ ~Emits(log')
            /\ Len(data_points') <= Len(data_points)]_vars

\* the link state a step leads to
After ==
    [open |-> serial_port'.obj /\ serial_port'.is_open, scan |-> scan_active',
     timer |-> timer']

\* C22: start_scan() invoked from Connected calls the write of the start
\* frame first.  When that write fails it returns False, emits one error
\* event and nothing else, and changes no field: the controller stays
\* Connected (flag false, timer not started, port open).  A start_scan()
\* that follows a failed one writes the start frame again, and when that
\* write succeeds the controller is Scanning with the frame written.
C22_StartScanWriteFailure ==
    [][/\ (op' = "start_scan" /\ Connected(Current)) =>
            /\ log' # <<>>
            /\ log'[1].k = "write_start"
            /\ ~log'[1].ok =>
                  /\ ret' = "False"
                  /\ log' = <<Call("write_start", FALSE),
                              Call("error_occurred", TRUE)>>
                  /\ Connected(After)
                  /\ UNCHANGED <<serial_port, timer, scan_active, rx,
                                 start_written, data_points, metrics>>
       /\ (op = "start_scan" /\ Connected(pre) /\ Has("write_start", FALSE)
             /\ op' = "start_scan") =>
            /\ Count("write_start")' = 1
            /\ log'[1].ok => ret' = "True" /\ start_written' /\ Scanning(After)]_vars

C22_Witness ==
    /\ op = "start_scan"
    /\ Connected(pre)
    /\ Has("write_start", FALSE)
    /\ Called("error_occurred")
    /\ ret = "False"
    /\ rx # <<>>

====
